---- MODULE Spec2Model ----
(***************************************************************************)
(* A model of src/Graph.cpp: the Transform cache, the SceneNode hierarchy, *)
(* the LOD table, the FrustumCuller, the Serializer and the UI lookups.    *)
(* Floats are modelled as integers (exact arithmetic); a vec3 is a triple, *)
(* a quat a record [w, x, y, z], a mat4 a 4-tuple of rows.                 *)
(***************************************************************************)
EXTENDS Integers, Sequences, FiniteSets, TLC

VARIABLES heap, root, tr, lod, planes, file, last, quat0, sets

vars == <<heap, root, tr, lod, planes, file, last, quat0, sets>>

NoCall == [op |-> "none"]

----------------------------------------------------------------------------
(* glm vectors and matrices *)

Vec3(x, y, z) == <<x, y, z>>

Quat(w, x, y, z) == [w |-> w, x |-> x, y |-> y, z |-> z]

Identity4 ==
  << <<1, 0, 0, 0>>,
     <<0, 1, 0, 0>>,
     <<0, 0, 1, 0>>,
     <<0, 0, 0, 1>> >>

Dot4(a, b, r, c) ==
  a[r][1] * b[1][c] + a[r][2] * b[2][c] + a[r][3] * b[3][c] + a[r][4] * b[4][c]

MatRow(a, b, r) == <<Dot4(a, b, r, 1), Dot4(a, b, r, 2), Dot4(a, b, r, 3), Dot4(a, b, r, 4)>>

MatMul(a, b) == <<MatRow(a, b, 1), MatRow(a, b, 2), MatRow(a, b, 3), MatRow(a, b, 4)>>

VecRow(m, v, r) == m[r][1] * v[1] + m[r][2] * v[2] + m[r][3] * v[3] + m[r][4] * v[4]

MatVec(m, v) == <<VecRow(m, v, 1), VecRow(m, v, 2), VecRow(m, v, 3), VecRow(m, v, 4)>>

\* glm::translate(m, v): m with its last column replaced by m * (v, 1)
TranslateRow(m, v, r) ==
  <<m[r][1], m[r][2], m[r][3],
    m[r][1] * v[1] + m[r][2] * v[2] + m[r][3] * v[3] + m[r][4]>>

Translate(m, v) ==
  <<TranslateRow(m, v, 1), TranslateRow(m, v, 2), TranslateRow(m, v, 3),
    TranslateRow(m, v, 4)>>

\* glm::scale(m, v): the first three columns of m scaled by v
ScaleRow(m, v, r) == <<m[r][1] * v[1], m[r][2] * v[2], m[r][3] * v[3], m[r][4]>>

Scale(m, v) == <<ScaleRow(m, v, 1), ScaleRow(m, v, 2), ScaleRow(m, v, 3), ScaleRow(m, v, 4)>>

\* glm::mat4_cast(q)
Mat4Cast(q) ==
  << <<1 - 2 * (q.y * q.y + q.z * q.z), 2 * (q.x * q.y - q.w * q.z),
       2 * (q.x * q.z + q.w * q.y), 0>>,
     <<2 * (q.x * q.y + q.w * q.z), 1 - 2 * (q.x * q.x + q.z * q.z),
       2 * (q.y * q.z - q.w * q.x), 0>>,
     <<2 * (q.x * q.z - q.w * q.y), 2 * (q.y * q.z + q.w * q.x),
       1 - 2 * (q.x * q.x + q.y * q.y), 0>>,
     <<0, 0, 0, 1>> >>

\* quat(): the identity quaternion, or all zeros where glm's constructor is
\* defaulted and value-initialisation zeroes the object; which one is fixed
\* by the build and held in quat0
DefaultQuats == {Quat(1, 0, 0, 0), Quat(0, 0, 0, 0)}

----------------------------------------------------------------------------
(* Transform *)

Positions == {Vec3(0, 0, 0), Vec3(1, 2, 3)}

Rotations == {Quat(1, 0, 0, 0), Quat(0, 1, 0, 0), Quat(1, 1, 0, 0)}

Scales == {Vec3(1, 1, 1), Vec3(2, 3, 1), Vec3(0, 0, 0)}

TransformCtor(q) ==
  [position |-> Vec3(0, 0, 0), rotation |-> q, scale |-> Vec3(1, 1, 1),
   localMatrix |-> Identity4, dirty |-> TRUE]

setPositionStale(t, pos) == [t EXCEPT !.position = pos]

setPosition(t, pos) == [t EXCEPT !.position = pos, !.dirty = TRUE]

setRotation(t, rot) == [t EXCEPT !.rotation = rot, !.dirty = TRUE]

setScale(t, scl) == [t EXCEPT !.scale = scl, !.dirty = TRUE]

\* the transform after the call (the cache is mutable)
getMatrixState(t) ==
  IF t.dirty
  THEN [t EXCEPT !.localMatrix =
                    MatMul(MatMul(Translate(Identity4, t.position),
                                  Mat4Cast(t.rotation)),
                           Scale(Identity4, t.scale)),
                 !.dirty = FALSE]
  ELSE t

\* the value the call returns
getMatrix(t) == getMatrixState(t).localMatrix

TrSetPosition ==
  /\ \E pos \in Positions :
       /\ tr' = setPosition(tr, pos)
       /\ last' = [op |-> "setPosition"]
  /\ UNCHANGED <<heap, root, lod, planes, file, quat0, sets>>

TrSetRotation ==
  /\ \E rot \in Rotations :
       /\ tr' = setRotation(tr, rot)
       /\ last' = [op |-> "setRotation"]
  /\ UNCHANGED <<heap, root, lod, planes, file, quat0, sets>>

TrSetScale ==
  /\ \E scl \in Scales :
       /\ tr' = setScale(tr, scl)
       /\ last' = [op |-> "setScale"]
  /\ UNCHANGED <<heap, root, lod, planes, file, quat0, sets>>

\* reads counts the getMatrix calls since the last setter, up to MaxReads
MaxReads == 2

TrGetMatrix ==
  /\ tr' = getMatrixState(tr)
  /\ last' = [op |-> "getMatrix", ret |-> getMatrix(tr),
              reads |-> IF last.op = "getMatrix"
                        THEN (IF last.reads < MaxReads THEN last.reads + 1
                              ELSE last.reads)
                        ELSE 1]
  /\ UNCHANGED <<heap, root, lod, planes, file, quat0, sets>>

InitTransform ==
  /\ quat0 \in DefaultQuats
  /\ tr = TransformCtor(quat0)
  /\ heap = <<>>
  /\ root = 0
  /\ lod = <<>>
  /\ planes = <<>>
  /\ file = <<>>
  /\ last = NoCall
  /\ sets = 0

NextTransform == TrSetPosition \/ TrSetRotation \/ TrSetScale \/ TrGetMatrix

SpecTransform == InitTransform /\ [][NextTransform]_vars

\* the composition written out entry by entry: T * R * S has the rotation
\* block with column c scaled by scale[c], and the position as last column
Composition(pos, rot, scl) ==
  LET R == Mat4Cast(rot)
  IN  << <<R[1][1] * scl[1], R[1][2] * scl[2], R[1][3] * scl[3], pos[1]>>,
         <<R[2][1] * scl[1], R[2][2] * scl[2], R[2][3] * scl[3], pos[2]>>,
         <<R[3][1] * scl[1], R[3][2] * scl[2], R[3][3] * scl[3], pos[3]>>,
         <<0, 0, 0, 1>> >>

\* C1: whenever the dirty flag is false the cached matrix is
\* translate(position) * rotate(rotation) * scale(scale) of the current
\* fields, and every getMatrix call returns that composition, however many
\* reads happened since the last mutation
C1_CacheCorrect ==
  /\ ~tr.dirty => tr.localMatrix = Composition(tr.position, tr.rotation, tr.scale)
  /\ last.op = "getMatrix" =>
       /\ last.ret = Composition(tr.position, tr.rotation, tr.scale)
       /\ ~tr.dirty

\* a second read in a row after all three fields were changed
C1_Witness ==
  /\ last.op = "getMatrix"
  /\ last.reads = 2
  /\ tr.position = Vec3(1, 2, 3)
  /\ tr.rotation = Quat(1, 1, 0, 0)
  /\ tr.scale = Vec3(2, 3, 1)
  /\ last.ret # Identity4

----------------------------------------------------------------------------
(* SceneNode: the heap is the sequence of nodes made so far, a node's id its
   index, 0 the null pointer *)

Null == 0

NodeIds == 1..Len(heap)

SceneNodeCtor(n, q) ==
  [name |-> n, transform |-> TransformCtor(q), parent |-> Null,
   children |-> <<>>,
   boundingBox |-> [min |-> Vec3(-1, -1, -1), max |-> Vec3(1, 1, 1)],
   lod |-> <<>>, visible |-> TRUE]

addChild(h, p, c) ==
  [h EXCEPT ![c].parent = p, ![p].children = Append(@, c)]

RECURSIVE DropFirst(_, _)
DropFirst(s, x) ==
  IF s = <<>> THEN <<>>
  ELSE IF Head(s) = x THEN Tail(s)
  ELSE <<Head(s)>> \o DropFirst(Tail(s), x)

removeChildFirstOnly(h, p, c) ==
  [h EXCEPT ![p].children = DropFirst(@, c)]

\* std::remove moves every entry that differs from child to the front, in
\* order; erase cuts the rest off
removeChild(h, p, c) ==
  [h EXCEPT ![p].children = SelectSeq(@, LAMBDA x : x # c)]

RECURSIVE SumLen(_, _)
SumLen(h, i) == IF i = 0 THEN 0 ELSE Len(h[i].children) + SumLen(h, i - 1)

MaxGraphNodes == 2

MaxEdges == 3

GNewNode ==
  /\ Len(heap) < MaxGraphNodes
  /\ heap' = Append(heap, SceneNodeCtor("N", quat0))
  /\ last' = [op |-> "new", p |-> Len(heap) + 1, c |-> Null, pre |-> <<>>]
  /\ UNCHANGED <<root, tr, lod, planes, file, quat0, sets>>

GAddChild ==
  /\ SumLen(heap, Len(heap)) < MaxEdges
  /\ \E p \in NodeIds, c \in NodeIds :
       /\ heap' = addChild(heap, p, c)
       /\ last' = [op |-> "addChild", p |-> p, c |-> c, pre |-> heap[p].children]
  /\ UNCHANGED <<root, tr, lod, planes, file, quat0, sets>>

GRemoveChild ==
  /\ \E p \in NodeIds, c \in NodeIds :
       /\ heap' = removeChild(heap, p, c)
       /\ last' = [op |-> "removeChild", p |-> p, c |-> c, pre |-> heap[p].children]
  /\ UNCHANGED <<root, tr, lod, planes, file, quat0, sets>>

InitGraph ==
  /\ quat0 \in DefaultQuats
  /\ tr = TransformCtor(quat0)
  /\ heap = <<>>
  /\ root = 0
  /\ lod = <<>>
  /\ planes = <<>>
  /\ file = <<>>
  /\ last = NoCall
  /\ sets = 0

NextGraph == GNewNode \/ GAddChild \/ GRemoveChild

SpecGraph == InitGraph /\ [][NextGraph]_vars

Occurs(s, x) == \E i \in 1..Len(s) : s[i] = x

Count(s, x) == Cardinality({i \in 1..Len(s) : s[i] = x})

\* C2: every node's parent reference is absent or points to a node whose
\* children sequence contains the node, and after parent.removeChild(child)
\* the child's parent reference is absent
C2_ParentMatchesChildren ==
  /\ \A n \in NodeIds :
       heap[n].parent = Null \/ Occurs(heap[heap[n].parent].children, n)
  /\ last.op = "removeChild" => heap[last.c].parent = Null

\* s is t with the entries at the positions in keep, in the same order
IsSelection(s, t, keep) ==
  /\ Len(s) = Cardinality(keep)
  /\ \A i \in keep : s[Cardinality({j \in keep : j <= i})] = t[i]

\* C8 as stated: removeChild removes exactly the first entry equal to child
\* and leaves every other entry, later entries equal to child included
C8_RemovesFirstOnly ==
  last.op = "removeChild" =>
    LET pre == last.pre
        hits == {i \in 1..Len(pre) : pre[i] = last.c}
        first == {i \in hits : \A j \in hits : i <= j}
    IN  IsSelection(heap[last.p].children, pre, (1..Len(pre)) \ first)

\* C8 as amended: removeChild removes every entry equal to child and leaves
\* the other entries in the same relative order; when child does not occur
\* the sequence is unchanged; no parent reference is touched
C8_RemovesEvery ==
  last.op = "removeChild" =>
    LET pre == last.pre
        keep == {i \in 1..Len(pre) : pre[i] # last.c}
    IN  /\ IsSelection(heap[last.p].children, pre, keep)
        /\ ~Occurs(pre, last.c) => heap[last.p].children = pre

\* the child was in the sequence twice, around another entry
C8_Witness ==
  /\ last.op = "removeChild"
  /\ Count(last.pre, last.c) = 2
  /\ Len(last.pre) = 3
  /\ Len(heap[last.p].children) = 1

\* a removeChild of a node that is not among the children
C8_WitnessAbsent ==
  /\ last.op = "removeChild"
  /\ ~Occurs(last.pre, last.c)
  /\ Len(last.pre) = 2

----------------------------------------------------------------------------
(* LOD: a level is [distanceThreshold, meshName] *)

LODLevel(d, m) == [distanceThreshold |-> d, meshName |-> m]

\* push_back, then std::sort by distanceThreshold: the new level goes behind
\* every level with a smaller threshold; std::sort is not stable, so where it
\* lands among the levels with an equal threshold is the implementation's
\* choice, given here by tie (the number of equal levels left in front of it)
addLevel(levels, d, m, tie) ==
  LET smaller == SelectSeq(levels, LAMBDA l : l.distanceThreshold < d)
      equal   == SelectSeq(levels, LAMBDA l : l.distanceThreshold = d)
      larger  == SelectSeq(levels, LAMBDA l : l.distanceThreshold > d)
      k       == IF tie < Len(equal) THEN tie ELSE Len(equal)
  IN  smaller \o SubSeq(equal, 1, k) \o <<LODLevel(d, m)>>
      \o SubSeq(equal, k + 1, Len(equal)) \o larger

RECURSIVE getMeshNonStrict(_, _)
getMeshNonStrict(levels, distance) ==
  IF levels = <<>> THEN ""
  ELSE IF distance <= Head(levels).distanceThreshold \/ Len(levels) = 1
       THEN Head(levels).meshName
       ELSE getMeshNonStrict(Tail(levels), distance)

\* the loop returns at the first level with distance < threshold; past the
\* loop the last level, or the empty string for an empty table
RECURSIVE getMesh(_, _)
getMesh(levels, distance) ==
  IF levels = <<>> THEN ""
  ELSE IF distance < Head(levels).distanceThreshold THEN Head(levels).meshName
  ELSE IF Len(levels) = 1 THEN Head(levels).meshName
  ELSE getMesh(Tail(levels), distance)

Thresholds == {1, 2, 4}

Distances == 0..5

Meshes == {"hi", "lo"}

MaxLevels == 3

LAddLevel ==
  /\ Len(lod) < MaxLevels
  /\ \E d \in Thresholds, m \in Meshes, tie \in 0..Len(lod) :
       /\ lod' = addLevel(lod, d, m, tie)
       /\ last' = [op |-> "addLevel", d |-> d, ret |-> ""]
  /\ UNCHANGED <<heap, root, tr, planes, file, quat0, sets>>

LGetMesh ==
  /\ \E d \in Distances : last' = [op |-> "getMesh", d |-> d, ret |-> getMesh(lod, d)]
  /\ UNCHANGED <<heap, root, tr, lod, planes, file, quat0, sets>>

InitLOD ==
  /\ quat0 \in DefaultQuats
  /\ tr = TransformCtor(quat0)
  /\ heap = <<>>
  /\ root = 0
  /\ lod = <<>>
  /\ planes = <<>>
  /\ file = <<>>
  /\ last = NoCall
  /\ sets = 0

NextLOD == LAddLevel \/ LGetMesh

SpecLOD == InitLOD /\ [][NextLOD]_vars

\* C4: the level list is sorted ascending by threshold after each addLevel;
\* getMesh(d) returns the mesh of the level with the smallest threshold
\* strictly greater than d (the first of them in the list), the mesh of the
\* level with the largest threshold (the last in the list) when no threshold
\* exceeds d, and the empty string for an empty table
C4_LODSelection ==
  /\ \A i, j \in 1..Len(lod) :
       i < j => lod[i].distanceThreshold <= lod[j].distanceThreshold
  /\ last.op = "getMesh" =>
       LET above == {i \in 1..Len(lod) : lod[i].distanceThreshold > last.d}
       IN  IF lod = <<>> THEN last.ret = ""
           ELSE IF above = {}
           THEN /\ last.ret = lod[Len(lod)].meshName
                /\ \A j \in 1..Len(lod) :
                     lod[j].distanceThreshold <= lod[Len(lod)].distanceThreshold
           ELSE \E i \in above :
                  /\ \A j \in above :
                       \/ lod[i].distanceThreshold < lod[j].distanceThreshold
                       \/ lod[i].distanceThreshold = lod[j].distanceThreshold /\ i <= j
                  /\ last.ret = lod[i].meshName

\* levels added out of order, and a query equal to the lowest threshold,
\* which selects the next level up
C4_Witness ==
  /\ last.op = "getMesh"
  /\ Len(lod) = 3
  /\ lod[1].distanceThreshold = 1
  /\ lod[2].distanceThreshold = 2
  /\ lod[1].meshName # lod[2].meshName
  /\ last.d = 1
  /\ last.ret = lod[2].meshName

----------------------------------------------------------------------------
(* World matrices *)

RECURSIVE getWorldMatrixSwapped(_, _)
getWorldMatrixSwapped(h, n) ==
  IF h[n].parent # Null
  THEN MatMul(getMatrix(h[n].transform), getWorldMatrixSwapped(h, h[n].parent))
  ELSE getMatrix(h[n].transform)

\* the value the call returns; the recursion ends at a node without parent
RECURSIVE getWorldMatrix(_, _)
getWorldMatrix(h, n) ==
  IF h[n].parent # Null
  THEN MatMul(getWorldMatrix(h, h[n].parent), getMatrix(h[n].transform))
  ELSE getMatrix(h[n].transform)

\* the heap after the call: getMatrix has refreshed the cache of the node
\* and of every ancestor
RECURSIVE getWorldMatrixState(_, _)
getWorldMatrixState(h, n) ==
  LET up == IF h[n].parent # Null THEN getWorldMatrixState(h, h[n].parent) ELSE h
  IN  [up EXCEPT ![n].transform = getMatrixState(@)]

\* the nodes of the chain root -> A -> B -> C, named in the order they are made
ChainNames == <<"Root", "A", "B", "C">>

WorldPosition == Vec3(1, 2, 3)

WorldScale == Vec3(2, 3, 1)

MaxSets == 2

\* parent->addChild(std::make_shared<SceneNode>(nodeName))
WAddNode ==
  /\ Len(heap) < Len(ChainNames)
  /\ \E p \in NodeIds :
       /\ heap' = addChild(Append(heap, SceneNodeCtor(ChainNames[Len(heap) + 1], quat0)),
                           p, Len(heap) + 1)
       /\ last' = [op |-> "addChild", n |-> Len(heap) + 1, ret |-> Identity4]
  /\ UNCHANGED <<root, tr, lod, planes, file, quat0, sets>>

WSetPosition ==
  /\ sets < MaxSets
  /\ \E n \in NodeIds :
       /\ heap' = [heap EXCEPT ![n].transform = setPosition(@, WorldPosition)]
       /\ last' = [op |-> "setPosition", n |-> n, ret |-> Identity4]
  /\ sets' = sets + 1
  /\ UNCHANGED <<root, tr, lod, planes, file, quat0>>

WSetScale ==
  /\ sets < MaxSets
  /\ \E n \in NodeIds :
       /\ heap' = [heap EXCEPT ![n].transform = setScale(@, WorldScale)]
       /\ last' = [op |-> "setScale", n |-> n, ret |-> Identity4]
  /\ sets' = sets + 1
  /\ UNCHANGED <<root, tr, lod, planes, file, quat0>>

WGetWorldMatrix ==
  /\ \E n \in NodeIds :
       /\ heap' = getWorldMatrixState(heap, n)
       /\ last' = [op |-> "getWorldMatrix", n |-> n, ret |-> getWorldMatrix(heap, n)]
  /\ UNCHANGED <<root, tr, lod, planes, file, quat0, sets>>

\* UI(): root(std::make_shared<SceneNode>("Root"))
InitWorld ==
  /\ quat0 \in DefaultQuats
  /\ tr = TransformCtor(quat0)
  /\ heap = <<SceneNodeCtor(ChainNames[1], quat0)>>
  /\ root = 1
  /\ lod = <<>>
  /\ planes = <<>>
  /\ file = <<>>
  /\ last = NoCall
  /\ sets = 0

NextWorld ==
  WAddNode \/ WSetPosition \/ WSetScale \/ WGetWorldMatrix

SpecWorld == InitWorld /\ [][NextWorld]_vars

\* the nodes from the one without parent down to n
RECURSIVE PathTo(_, _)
PathTo(h, n) ==
  IF h[n].parent = Null THEN <<n>> ELSE Append(PathTo(h, h[n].parent), n)

Local(h, n) ==
  Composition(h[n].transform.position, h[n].transform.rotation, h[n].transform.scale)

\* local(path[i]) * (local(path[i+1]) * (... * local(path[Len])))
RECURSIVE ProductFrom(_, _, _)
ProductFrom(h, path, i) ==
  IF i = Len(path) THEN Local(h, path[i])
  ELSE MatMul(Local(h, path[i]), ProductFrom(h, path, i + 1))

\* C3: getWorldMatrix of a node is the ordered product of the local matrices
\* from the root down to the node, computed from the fields current at the
\* call; a node without parent returns its own local matrix
C3_WorldMatrixIsChainProduct ==
  /\ \A n \in NodeIds : getWorldMatrix(heap, n) = ProductFrom(heap, PathTo(heap, n), 1)
  /\ last.op = "getWorldMatrix" =>
       /\ last.ret = ProductFrom(heap, PathTo(heap, last.n), 1)
       /\ heap[last.n].parent = Null => last.ret = Local(heap, last.n)

\* a chain root -> A -> B -> C whose end is read after two local transforms
\* that do not commute were set on the chain
C3_Witness ==
  /\ last.op = "getWorldMatrix"
  /\ Len(PathTo(heap, last.n)) = 4
  /\ heap[1].transform.scale = WorldScale
  /\ heap[2].transform.position = WorldPosition
  /\ last.ret # MatMul(Local(heap, 2), Local(heap, 1))
  /\ last.ret = MatMul(Local(heap, 1), Local(heap, 2))

----------------------------------------------------------------------------
(* UI: the tree under the UI's root, edited by name *)

RECURSIVE findNodeChildrenFirst(_, _, _)
RECURSIVE findInChildrenFirst(_, _, _, _)
findInChildrenFirst(h, name, kids, i) ==
  IF i > Len(kids) THEN Null
  ELSE LET r == findNodeChildrenFirst(h, name, kids[i])
       IN  IF r # Null THEN r ELSE findInChildrenFirst(h, name, kids, i + 1)

findNodeChildrenFirst(h, name, node) ==
  LET r == findInChildrenFirst(h, name, h[node].children, 1)
  IN  IF r # Null THEN r
      ELSE IF h[node].name = name THEN node ELSE Null

RECURSIVE findNode(_, _, _)
RECURSIVE findInChildren(_, _, _, _)
\* the loop over node->children from the i-th child on
findInChildren(h, name, kids, i) ==
  IF i > Len(kids) THEN Null
  ELSE LET r == findNode(h, name, kids[i])
       IN  IF r # Null THEN r ELSE findInChildren(h, name, kids, i + 1)

findNode(h, name, node) ==
  IF h[node].name = name THEN node
  ELSE findInChildren(h, name, h[node].children, 1)

NodeNames == {"A", "B"}

QueryNames == {"Root", "A", "B", "C"}

MaxUINodes == 4

UAddNode ==
  /\ Len(heap) < MaxUINodes
  /\ \E parentName \in QueryNames, nodeName \in NodeNames :
       LET parent == findNode(heap, parentName, root)
       IN  /\ heap' = IF parent = Null THEN heap
                      ELSE addChild(Append(heap, SceneNodeCtor(nodeName, quat0)),
                                    parent, Len(heap) + 1)
           /\ last' = [op |-> "addNode", name |-> parentName, ret |-> parent]
  /\ UNCHANGED <<root, tr, lod, planes, file, quat0, sets>>

URemoveNode ==
  /\ \E name \in QueryNames :
       LET node == findNode(heap, name, root)
       IN  /\ heap' = IF node # Null /\ heap[node].parent # Null
                      THEN removeChild(heap, heap[node].parent, node)
                      ELSE heap
           /\ last' = [op |-> "removeNode", name |-> name, ret |-> node]
  /\ UNCHANGED <<root, tr, lod, planes, file, quat0, sets>>

\* the lookup on its own: what findNode(name, root) returns to its caller
UFindNode ==
  /\ \E name \in QueryNames :
       last' = [op |-> "findNode", name |-> name, ret |-> findNode(heap, name, root)]
  /\ UNCHANGED <<heap, root, tr, lod, planes, file, quat0, sets>>

\* UI(): root(std::make_shared<SceneNode>("Root"))
InitUI ==
  /\ quat0 \in DefaultQuats
  /\ tr = TransformCtor(quat0)
  /\ heap = <<SceneNodeCtor("Root", quat0)>>
  /\ root = 1
  /\ lod = <<>>
  /\ planes = <<>>
  /\ file = <<>>
  /\ last = NoCall
  /\ sets = 0

NextUI == UAddNode \/ URemoveNode \/ UFindNode

SpecUI == InitUI /\ [][NextUI]_vars

\* depth-first pre-order: the node, then each child's pre-order in sequence
RECURSIVE PreOrder(_, _)
RECURSIVE PreOrderOf(_, _, _)
PreOrderOf(h, kids, i) ==
  IF i > Len(kids) THEN <<>>
  ELSE PreOrder(h, kids[i]) \o PreOrderOf(h, kids, i + 1)

PreOrder(h, n) == <<n>> \o PreOrderOf(h, h[n].children, 1)

\* the nodes reachable from n through children sequences
RECURSIVE ReachFrom(_, _)
ReachFrom(h, seen) ==
  LET more == seen \cup {h[m].children[i] : <<m, i>> \in
                           {<<m, i>> \in seen \X (1..Len(h)) : i <= Len(h[m].children)}}
  IN  IF more = seen THEN seen ELSE ReachFrom(h, more)

\* C9: the lookup returns the first node in pre-order with the queried name,
\* and no result exactly when no node reachable from the root has that name
C9_FirstInPreOrder ==
  last.op = "findNode" =>
    LET order == PreOrder(heap, root)
        hits == {i \in 1..Len(order) : heap[order[i]].name = last.name}
    IN  /\ hits # {} =>
             \E i \in hits : (\A j \in hits : i <= j) /\ last.ret = order[i]
        /\ last.ret = Null <=>
             ~\E n \in ReachFrom(heap, {root}) : heap[n].name = last.name

\* two nodes share the name; the first of them in pre-order is a grandchild
\* that comes before a child of the root with the same name
C9_Witness ==
  /\ last.op = "findNode"
  /\ last.ret # Null
  /\ heap[last.ret].parent # root
  /\ \E n \in ReachFrom(heap, {root}) :
       /\ n # last.ret
       /\ heap[n].name = last.name
       /\ heap[n].parent = root

\* a lookup of a name no node has
C9_WitnessAbsent ==
  /\ last.op = "findNode"
  /\ last.ret = Null
  /\ Len(PreOrder(heap, root)) >= 3

----------------------------------------------------------------------------
(* FrustumCuller: a plane is a vec4 <<a, b, c, d>> *)

\* glm::length of an integer vector whose length is an integer
Length3(p) == CHOOSE l \in 0..(p[1] * p[1] + p[2] * p[2] + p[3] * p[3]) :
                l * l = p[1] * p[1] + p[2] * p[2] + p[3] * p[3]

VecAdd(a, b) == <<a[1] + b[1], a[2] + b[2], a[3] + b[3], a[4] + b[4]>>

VecSub(a, b) == <<a[1] - b[1], a[2] - b[2], a[3] - b[3], a[4] - b[4]>>

\* p /= l, for a plane whose components are multiples of l
Normalized(p) ==
  LET l == Length3(p) IN <<p[1] \div l, p[2] \div l, p[3] \div l, p[4] \div l>>

\* glm::row(m, i) is m[i + 1] here
extractPlanes(m) ==
  <<Normalized(VecAdd(m[4], m[1])), Normalized(VecSub(m[4], m[1])),
    Normalized(VecAdd(m[4], m[2])), Normalized(VecSub(m[4], m[2])),
    Normalized(VecAdd(m[4], m[3])), Normalized(VecSub(m[4], m[3]))>>

\* pts[8], in the order of the initialiser
BoxPoints(bb) ==
  <<Vec3(bb.min[1], bb.min[2], bb.min[3]), Vec3(bb.max[1], bb.min[2], bb.min[3]),
    Vec3(bb.min[1], bb.max[2], bb.min[3]), Vec3(bb.max[1], bb.max[2], bb.min[3]),
    Vec3(bb.min[1], bb.min[2], bb.max[3]), Vec3(bb.max[1], bb.min[2], bb.max[3]),
    Vec3(bb.min[1], bb.max[2], bb.max[3]), Vec3(bb.max[1], bb.max[2], bb.max[3])>>

\* glm::dot(vec3(plane), vec3(wp)) + plane.w
PlaneDistance(plane, wp) ==
  plane[1] * wp[1] + plane[2] * wp[2] + plane[3] * wp[3] + plane[4]

OutCountOrOn(pl, wm, pts) ==
  Cardinality({i \in 1..8 :
                 PlaneDistance(pl, MatVec(wm, <<pts[i][1], pts[i][2], pts[i][3], 1>>)) <= 0})

\* the inner loop: the number of corners behind the plane
OutCount(pl, wm, pts) ==
  Cardinality({i \in 1..8 :
                 PlaneDistance(pl, MatVec(wm, <<pts[i][1], pts[i][2], pts[i][3], 1>>)) < 0})

isVisibleOrOn(h, n, pls) ==
  LET wm  == getWorldMatrix(h, n)
      pts == BoxPoints(h[n].boundingBox)
  IN  ~\E k \in 1..6 : OutCountOrOn(pls[k], wm, pts) = 8

\* the value the call returns
isVisible(h, n, pls) ==
  LET wm  == getWorldMatrix(h, n)
      pts == BoxPoints(h[n].boundingBox)
  IN  ~\E k \in 1..6 : OutCount(pls[k], wm, pts) = 8

\* the heap after the call: the caches getWorldMatrix refreshed, and the flag
isVisibleState(h, n, pls) ==
  [getWorldMatrixState(h, n) EXCEPT ![n].visible = isVisible(h, n, pls)]

\* mat4(1.0f) as in cullAndPrint, and a view whose frustum is 0 <= x <= 2
ProjViews ==
  {Identity4,
   << <<1, 0, 0, -1>>, <<0, 1, 0, 0>>, <<0, 0, 1, 0>>, <<0, 0, 0, 1>> >>}

CullPositions == {Vec3(2, 0, 0), Vec3(3, 0, 0)}

CullScales == {Vec3(2, 2, 2)}

MaxCullNodes == 2

MaxCullSets == 2

CAddNode ==
  /\ Len(heap) < MaxCullNodes
  /\ \E p \in NodeIds :
       /\ heap' = addChild(Append(heap, SceneNodeCtor("N", quat0)), p, Len(heap) + 1)
       /\ last' = [op |-> "addChild", n |-> Len(heap) + 1, ret |-> TRUE]
  /\ UNCHANGED <<root, tr, lod, planes, file, quat0, sets>>

CSetPosition ==
  /\ sets < MaxCullSets
  /\ \E n \in NodeIds, pos \in CullPositions :
       /\ heap' = [heap EXCEPT ![n].transform = setPosition(@, pos)]
       /\ last' = [op |-> "setPosition", n |-> n, ret |-> TRUE]
  /\ sets' = sets + 1
  /\ UNCHANGED <<root, tr, lod, planes, file, quat0>>

CSetScale ==
  /\ sets < MaxCullSets
  /\ \E n \in NodeIds, scl \in CullScales :
       /\ heap' = [heap EXCEPT ![n].transform = setScale(@, scl)]
       /\ last' = [op |-> "setScale", n |-> n, ret |-> TRUE]
  /\ sets' = sets + 1
  /\ UNCHANGED <<root, tr, lod, planes, file, quat0>>

CIsVisible ==
  /\ \E n \in NodeIds :
       /\ heap' = isVisibleState(heap, n, planes)
       /\ last' = [op |-> "isVisible", n |-> n, ret |-> isVisible(heap, n, planes)]
  /\ UNCHANGED <<root, tr, lod, planes, file, quat0, sets>>

\* FrustumCuller culler(projView) over the tree of a new UI
InitCull ==
  /\ quat0 \in DefaultQuats
  /\ tr = TransformCtor(quat0)
  /\ heap = <<SceneNodeCtor("Root", quat0)>>
  /\ root = 1
  /\ lod = <<>>
  /\ \E m \in ProjViews : planes = extractPlanes(m)
  /\ file = <<>>
  /\ last = NoCall
  /\ sets = 0

NextCull == CAddNode \/ CSetPosition \/ CSetScale \/ CIsVisible

SpecCull == InitCull /\ [][NextCull]_vars

\* the eight corners of the box of n in world space
WorldCorners(h, n) ==
  LET bb == h[n].boundingBox
      wm == ProductFrom(h, PathTo(h, n), 1)
  IN  {MatVec(wm, <<x, y, z, 1>>) :
         <<x, y, z>> \in {bb.min[1], bb.max[1]} \X {bb.min[2], bb.max[2]}
                         \X {bb.min[3], bb.max[3]}}

Behind(pl, wp) == pl[1] * wp[1] + pl[2] * wp[2] + pl[3] * wp[3] + pl[4] < 0

\* C7: isVisible returns false exactly when for one of the six planes all
\* eight world-transformed corners have signed distance strictly below 0
\* (a corner on a plane counts as inside), and the node's visible flag equals
\* the returned value afterwards
C7_CulledIffBehindOnePlane ==
  last.op = "isVisible" =>
    /\ last.ret = FALSE <=>
         \E k \in 1..6 : \A wp \in WorldCorners(heap, last.n) : Behind(planes[k], wp)
    /\ heap[last.n].visible = last.ret

\* with the identity view: the unit box at the origin is visible
C7_WitnessOrigin ==
  /\ last.op = "isVisible"
  /\ planes = extractPlanes(Identity4)
  /\ ProductFrom(heap, PathTo(heap, last.n), 1) = Identity4
  /\ last.ret = TRUE

\* with the identity view: a box moved wholly beyond the plane x = 1 is not
C7_Witness ==
  /\ last.op = "isVisible"
  /\ planes = extractPlanes(Identity4)
  /\ heap[last.n].parent # Null
  /\ \A wp \in WorldCorners(heap, last.n) : wp[1] > 1
  /\ last.ret = FALSE
  /\ ~heap[last.n].visible

\* a box that only touches the plane x = 1 stays visible
C7_WitnessTouching ==
  /\ last.op = "isVisible"
  /\ planes = extractPlanes(Identity4)
  /\ \A wp \in WorldCorners(heap, last.n) : wp[1] >= 1
  /\ last.ret = TRUE

----------------------------------------------------------------------------
(* Text streams: a file is the sequence of its whitespace-separated tokens *)

\* a float with more than six significant digits, and what "%g" leaves of it
BigFloat == 1234567

BigFloatRead == 1234570

SciToken == "1.23457e+06"

SciRest == ".23457e+06"

SciRestRead == 234570

\* the integers whose text the model reads back
Numerals == -1..9

\* os << float: default precision, six significant digits
FormatFloat(v) ==
  IF v = BigFloat \/ v = BigFloatRead THEN SciToken
  ELSE IF v = SciRestRead THEN "234570"
  ELSE ToString(v)

\* os << size_t
FormatCount(n) == ToString(n)

\* the tokens os << str leaves in the file: none for the empty string, one
\* per word for a string with blanks
Words(str) ==
  CASE str = "" -> <<>>
    [] str = "my node" -> <<"my", "node">>
    [] OTHER -> <<str>>

NumeralTokens == {ToString(v) : v \in Numerals}

IsNumeral(tok) == tok \in NumeralTokens

NumeralValue(tok) == CHOOSE v \in Numerals : ToString(v) = tok

IStream(toks) == [toks |-> toks, pos |-> 1, fail |-> FALSE]

AtEnd(st) == st.fail \/ st.pos > Len(st.toks)

\* is >> str: on a failed stream or at the end of the file the string keeps
\* its value cur and the stream fails
ReadWord(st, cur) ==
  IF AtEnd(st) THEN [st |-> [st EXCEPT !.fail = TRUE], v |-> cur]
  ELSE [st |-> [st EXCEPT !.pos = @ + 1], v |-> st.toks[st.pos]]

\* is >> f for a float: on a failed stream or at the end of the file f keeps
\* its value cur; a token that is no number stores 0 and fails the stream
ReadFloat(st, cur) ==
  IF AtEnd(st) THEN [st |-> [st EXCEPT !.fail = TRUE], v |-> cur]
  ELSE LET tok == st.toks[st.pos]
       IN  IF tok = SciToken
           THEN [st |-> [st EXCEPT !.pos = @ + 1], v |-> BigFloatRead]
           ELSE IF tok = SciRest
           THEN [st |-> [st EXCEPT !.pos = @ + 1], v |-> SciRestRead]
           ELSE IF IsNumeral(tok)
           THEN [st |-> [st EXCEPT !.pos = @ + 1], v |-> NumeralValue(tok)]
           ELSE [st |-> [st EXCEPT !.fail = TRUE], v |-> 0]

\* is >> n for an int: as for a float, but the digits end at the first '.',
\* and the rest of the token stays in the stream
ReadInt(st, cur) ==
  IF AtEnd(st) THEN [st |-> [st EXCEPT !.fail = TRUE], v |-> cur]
  ELSE LET tok == st.toks[st.pos]
       IN  IF tok = SciToken
           THEN [st |-> [st EXCEPT !.toks[st.pos] = SciRest], v |-> 1]
           ELSE IF IsNumeral(tok)
           THEN [st |-> [st EXCEPT !.pos = @ + 1], v |-> NumeralValue(tok)]
           ELSE [st |-> [st EXCEPT !.fail = TRUE], v |-> 0]

\* is >> f1 >> ... >> fk into uninitialised floats: vs collects the values,
\* junk is what an uninitialised float holds
RECURSIVE ReadFloats(_, _, _, _)
ReadFloats(st, k, junk, vs) ==
  IF k = 0 THEN [st |-> st, v |-> vs]
  ELSE LET r == ReadFloat(st, junk)
       IN  ReadFloats(r.st, k - 1, junk, Append(vs, r.v))

----------------------------------------------------------------------------
(* Serializer *)

RECURSIVE serializeLevels(_, _)
serializeLevels(levels, i) ==
  IF i > Len(levels) THEN <<>>
  ELSE <<FormatFloat(levels[i].distanceThreshold)>> \o Words(levels[i].meshName)
       \o serializeLevels(levels, i + 1)

RECURSIVE serializeNode(_, _)
RECURSIVE serializeChildren(_, _, _)
serializeChildren(h, kids, i) ==
  IF i > Len(kids) THEN <<>>
  ELSE serializeNode(h, kids[i]) \o serializeChildren(h, kids, i + 1)

serializeNode(h, n) ==
  LET pos == h[n].transform.position
      rot == h[n].transform.rotation
      scl == h[n].transform.scale
      bb  == h[n].boundingBox
  IN  <<"Node">> \o Words(h[n].name)
      \o <<"Position", FormatFloat(pos[1]), FormatFloat(pos[2]), FormatFloat(pos[3])>>
      \o <<"Rotation", FormatFloat(rot.x), FormatFloat(rot.y), FormatFloat(rot.z),
           FormatFloat(rot.w)>>
      \o <<"Scale", FormatFloat(scl[1]), FormatFloat(scl[2]), FormatFloat(scl[3])>>
      \o <<"LODLevels", FormatCount(Len(h[n].lod))>>
      \o serializeLevels(h[n].lod, 1)
      \o <<"BoundingBox", FormatFloat(bb.min[1]), FormatFloat(bb.min[2]),
           FormatFloat(bb.min[3]), FormatFloat(bb.max[1]), FormatFloat(bb.max[2]),
           FormatFloat(bb.max[3])>>
      \o <<"Children", FormatCount(Len(h[n].children))>>
      \o serializeChildren(h, h[n].children, 1)

\* setRotation({rw, rx, ry, rz}) with the tokens read into rx, ry, rz, rw in
\* this order: glm's quat constructor takes (w, x, y, z)
ParsedRotationWFirst(rx, ry, rz, rw) == Quat(rx, ry, rz, rw)

ParsedRotation(rx, ry, rz, rw) == Quat(rw, rx, ry, rz)

ParsedBox(v) ==
  [min |-> Vec3(v[1], v[2], v[3]), max |-> Vec3(v[4], v[5], v[6])]

\* the LOD loop from its i-th round on: float d; std::string m; is >> d >> m
RECURSIVE deserLevels(_, _, _, _, _)
deserLevels(st, levels, i, count, orc) ==
  IF i >= count THEN [st |-> st, v |-> levels]
  ELSE LET d == ReadFloat(st, orc.junk)
           m == ReadWord(d.st, "")
       IN  deserLevels(m.st, addLevel(levels, d.v, m.v, orc.tie), i + 1, count, orc)

\* deser(is): the stream and the heap after the call, and the node returned.
\* orc holds what the code leaves open: junk, the value of an uninitialised
\* float, count, that of an uninitialised int, and tie, where std::sort puts
\* a level among equal thresholds
RECURSIVE deser(_, _, _)
RECURSIVE deserChildren(_, _, _, _, _, _)
deserChildren(st, h, node, i, count, orc) ==
  IF i >= count THEN [st |-> st, h |-> h, node |-> node]
  ELSE LET c == deser(st, h, orc)
       IN  deserChildren(c.st, IF c.node # Null THEN addChild(c.h, node, c.node) ELSE c.h,
                         node, i + 1, count, orc)

deser(st0, h0, orc) ==
  LET t1 == ReadWord(st0, "")
  IN  IF t1.st.fail \/ t1.v # "Node" THEN [st |-> t1.st, h |-> h0, node |-> Null]
      ELSE
      LET name  == ReadWord(t1.st, "")
          node  == Len(h0) + 1
          t2    == ReadWord(name.st, t1.v)
          p     == ReadFloats(t2.st, 3, orc.junk, <<>>)
          t3    == ReadWord(p.st, t2.v)
          r     == ReadFloats(t3.st, 4, orc.junk, <<>>)
          t4    == ReadWord(r.st, t3.v)
          s     == ReadFloats(t4.st, 3, orc.junk, <<>>)
          t5    == ReadWord(s.st, t4.v)
          nlod  == ReadInt(t5.st, orc.count)
          lv    == deserLevels(nlod.st, <<>>, 0, nlod.v, orc)
          t6    == ReadWord(lv.st, t5.v)
          b     == ReadFloats(t6.st, 6, orc.junk, <<>>)
          t7    == ReadWord(b.st, t6.v)
          nkids == ReadInt(t7.st, orc.count)
          made  == SceneNodeCtor(name.v, quat0)
          tf    == setScale(setRotation(setPosition(made.transform,
                                                    Vec3(p.v[1], p.v[2], p.v[3])),
                                        ParsedRotation(r.v[1], r.v[2], r.v[3], r.v[4])),
                            Vec3(s.v[1], s.v[2], s.v[3]))
          built == [made EXCEPT !.transform = tf, !.lod = lv.v,
                                !.boundingBox = ParsedBox(b.v)]
      IN  deserChildren(nkids.st, Append(h0, built), node, 0, nkids.v, orc)

\* Serializer::deserialize: the heap after the call and the node returned
deserialize(toks, h, orc) ==
  LET r == deser(IStream(toks), h, orc) IN [h |-> r.h, node |-> r.node]

----------------------------------------------------------------------------
(* Serialize and deserialize a scene built through the API *)

\* the names a node can be given, by the order the nodes are made: the UI
\* names its root "Root", and the second node can get a name with a blank
SerialNames == <<{"Root"}, {"A", "my node"}, {"B"}>>

SerialMeshes == {"hi", "lo"}

SerialPositions == {Vec3(1, 2, 3), Vec3(BigFloat, 0, 0)}

SerialRotation == Quat(4, 1, 2, 3)

SerialScale == Vec3(2, 3, 1)

SerialThresholds == {1, 2}

\* what the implementation is free to choose during one load: the value of a
\* float or of a count whose read failed, and where std::sort puts a level
\* among equal thresholds
Oracles == [junk : {7}, count : {0, 1}, tie : {0, 1}]

MaxSerialNodes == Len(SerialNames)

MaxSerialEdits == 2

\* the node made last, the one the edits below configure; the scene is
\* built, then saved, then loaded, and the model stops at the first load
\* that replaces the root
Newest == Len(heap)

SAddNode ==
  /\ root = 1
  /\ file = <<>>
  /\ Len(heap) < MaxSerialNodes
  /\ \E p \in NodeIds, nm \in SerialNames[Len(heap) + 1] :
       /\ heap' = addChild(Append(heap, SceneNodeCtor(nm, quat0)), p, Len(heap) + 1)
       /\ last' = [op |-> "edit"]
  /\ UNCHANGED <<root, tr, lod, planes, file, quat0, sets>>

SSetPosition ==
  /\ root = 1
  /\ file = <<>>
  /\ sets < MaxSerialEdits
  /\ \E pos \in SerialPositions :
       heap' = [heap EXCEPT ![Newest].transform = setPosition(@, pos)]
  /\ last' = [op |-> "edit"]
  /\ sets' = sets + 1
  /\ UNCHANGED <<root, tr, lod, planes, file, quat0>>

SSetRotation ==
  /\ root = 1
  /\ file = <<>>
  /\ sets < MaxSerialEdits
  /\ heap' = [heap EXCEPT ![Newest].transform = setRotation(@, SerialRotation)]
  /\ last' = [op |-> "edit"]
  /\ sets' = sets + 1
  /\ UNCHANGED <<root, tr, lod, planes, file, quat0>>

SSetScale ==
  /\ root = 1
  /\ file = <<>>
  /\ sets < MaxSerialEdits
  /\ heap' = [heap EXCEPT ![Newest].transform = setScale(@, SerialScale)]
  /\ last' = [op |-> "edit"]
  /\ sets' = sets + 1
  /\ UNCHANGED <<root, tr, lod, planes, file, quat0>>

SAddLevel ==
  /\ root = 1
  /\ file = <<>>
  /\ sets < MaxSerialEdits
  /\ \E d \in SerialThresholds, m \in SerialMeshes, tie \in 0..1 :
       heap' = [heap EXCEPT ![Newest].lod = addLevel(@, d, m, tie)]
  /\ last' = [op |-> "edit"]
  /\ sets' = sets + 1
  /\ UNCHANGED <<root, tr, lod, planes, file, quat0>>

\* UI::serializeScene
SSerialize ==
  /\ root = 1
  /\ file' = serializeNode(heap, root)
  /\ last' = [op |-> "serialize"]
  /\ UNCHANGED <<heap, root, tr, lod, planes, quat0, sets>>

\* UI::deserializeScene; fresh tells whether the file is what serialize
\* writes for the tree under root
SDeserialize ==
  /\ root = 1
  /\ \E orc \in Oracles :
       LET r == deserialize(file, heap, orc)
       IN  /\ heap' = r.h
           /\ root' = IF r.node # Null THEN r.node ELSE root
           /\ last' = [op |-> "deserialize", ret |-> r.node, src |-> root,
                       fresh |-> file = serializeNode(heap, root)]
  /\ UNCHANGED <<tr, lod, planes, file, quat0, sets>>

InitSerial ==
  /\ quat0 \in DefaultQuats
  /\ tr = TransformCtor(quat0)
  /\ heap = <<SceneNodeCtor("Root", quat0)>>
  /\ root = 1
  /\ lod = <<>>
  /\ planes = <<>>
  /\ file = <<>>
  /\ last = NoCall
  /\ sets = 0

NextSerial ==
  \/ SAddNode
  \/ SSetPosition
  \/ SSetRotation
  \/ SSetScale
  \/ SAddLevel
  \/ SSerialize
  \/ SDeserialize

SpecSerial == InitSerial /\ [][NextSerial]_vars

\* the subtree of b repeats the subtree of a: names, transform fields,
\* boxes, LOD tables, and children in order, each child pointing back at b
RECURSIVE Isomorphic(_, _, _)
Isomorphic(h, a, b) ==
  /\ h[a].name = h[b].name
  /\ h[a].transform.position = h[b].transform.position
  /\ h[a].transform.rotation = h[b].transform.rotation
  /\ h[a].transform.scale = h[b].transform.scale
  /\ h[a].boundingBox = h[b].boundingBox
  /\ h[a].lod = h[b].lod
  /\ Len(h[a].children) = Len(h[b].children)
  /\ \A i \in 1..Len(h[a].children) :
       /\ h[h[b].children[i]].parent = b
       /\ Isomorphic(h, h[a].children[i], h[b].children[i])

\* a string that is one token of the file
OneToken(str) == str # "" /\ str # "my node"

\* a number with at most six significant digits
SixDigits(v) ==
  \/ v > -1000000 /\ v < 1000000
  \/ v % 10 = 0 /\ v \div 10 > -1000000 /\ v \div 10 < 1000000

AllSixDigits(vec) == \A i \in DOMAIN vec : SixDigits(vec[i])

\* every node under n has a one-token name, one-token mesh names, thresholds
\* that differ within its LOD table, and numbers of at most six digits
RECURSIVE TextSafe(_, _)
TextSafe(h, n) ==
  /\ OneToken(h[n].name)
  /\ AllSixDigits(h[n].transform.position)
  /\ AllSixDigits(h[n].transform.scale)
  /\ \A c \in {h[n].transform.rotation.w, h[n].transform.rotation.x,
               h[n].transform.rotation.y, h[n].transform.rotation.z} : SixDigits(c)
  /\ AllSixDigits(h[n].boundingBox.min)
  /\ AllSixDigits(h[n].boundingBox.max)
  /\ \A i \in 1..Len(h[n].lod) :
       /\ OneToken(h[n].lod[i].meshName)
       /\ SixDigits(h[n].lod[i].distanceThreshold)
       /\ \A j \in 1..Len(h[n].lod) :
            i # j => h[n].lod[i].distanceThreshold # h[n].lod[j].distanceThreshold
  /\ \A i \in 1..Len(h[n].children) : TextSafe(h, h[n].children[i])

Abs(v) == IF v < 0 THEN -v ELSE v

\* two numbers that agree to six significant digits
Near(a, b) == Abs(a - b) * 100000 <= Abs(a)

NearVec(u, v) == \A i \in DOMAIN u : Near(u[i], v[i])

\* Isomorphic with the numbers compared within the tolerance of the text
RECURSIVE Resembles(_, _, _)
Resembles(h, a, b) ==
  /\ h[a].name = h[b].name
  /\ NearVec(h[a].transform.position, h[b].transform.position)
  /\ Near(h[a].transform.rotation.w, h[b].transform.rotation.w)
  /\ Near(h[a].transform.rotation.x, h[b].transform.rotation.x)
  /\ Near(h[a].transform.rotation.y, h[b].transform.rotation.y)
  /\ Near(h[a].transform.rotation.z, h[b].transform.rotation.z)
  /\ NearVec(h[a].transform.scale, h[b].transform.scale)
  /\ NearVec(h[a].boundingBox.min, h[b].boundingBox.min)
  /\ NearVec(h[a].boundingBox.max, h[b].boundingBox.max)
  /\ Len(h[a].lod) = Len(h[b].lod)
  /\ \A i \in 1..Len(h[a].lod) :
       /\ Near(h[a].lod[i].distanceThreshold, h[b].lod[i].distanceThreshold)
       /\ h[a].lod[i].meshName = h[b].lod[i].meshName
  /\ Len(h[a].children) = Len(h[b].children)
  /\ \A i \in 1..Len(h[a].children) :
       /\ h[h[b].children[i]].parent = b
       /\ Resembles(h, h[a].children[i], h[b].children[i])

\* C5: deserializing what serialize wrote yields an isomorphic tree, whatever
\* the tree: same names, same transform fields, boxes and LOD tables (numbers
\* within floating-point tolerance), same children in the same order, each
\* child pointing back at its parent
C5_RoundTripAnyTree ==
  (last.op = "deserialize" /\ last.fresh) =>
    /\ last.ret # Null
    /\ Resembles(heap, last.src, last.ret)

\* C5 on the trees the text format can carry: the round trip is exact when
\* every name and mesh name is one token, the thresholds of each LOD table
\* differ, and every number has at most six significant digits
C5_RoundTripTextSafe ==
  (last.op = "deserialize" /\ last.fresh /\ TextSafe(heap, last.src)) =>
    /\ last.ret # Null
    /\ last.ret # last.src
    /\ root = last.ret
    /\ Isomorphic(heap, last.src, last.ret)

\* a root with two levels and two children, read back in order
C5_Witness ==
  /\ last.op = "deserialize"
  /\ last.fresh
  /\ TextSafe(heap, last.src)
  /\ Len(heap[last.src].children) = 2
  /\ heap[heap[last.ret].children[1]].name = "A"
  /\ heap[heap[last.ret].children[2]].name = "B"
  /\ Len(heap[last.ret].lod) = 2

\* C10 as stated: a rotation (x, y, z, w) is read back with w' = x, x' = y,
\* y' = z, z' = w
C10_RotationShifted ==
  (last.op = "deserialize" /\ last.fresh /\ last.ret # Null) =>
    LET a == heap[last.src].transform.rotation
        b == heap[last.ret].transform.rotation
    IN  b.w = a.x /\ b.x = a.y /\ b.y = a.z /\ b.z = a.w

\* C10 as amended: the four tokens written as x, y, z, w are read into rx,
\* ry, rz, rw and passed as quat(rw, rx, ry, rz), whose parameters are
\* (w, x, y, z): the rotation is read back as it was, when the name before
\* it is one token and its components have at most six digits
C10_RotationSurvives ==
  (last.op = "deserialize" /\ last.fresh /\ OneToken(heap[last.src].name)
     /\ \A c \in {heap[last.src].transform.rotation.w, heap[last.src].transform.rotation.x,
                  heap[last.src].transform.rotation.y, heap[last.src].transform.rotation.z} :
          SixDigits(c)) =>
    /\ last.ret # Null
    /\ heap[last.ret].transform.rotation = heap[last.src].transform.rotation

\* a rotation with four different components went through the file
C10_Witness ==
  /\ last.op = "deserialize"
  /\ last.fresh
  /\ heap[last.src].transform.rotation = SerialRotation
  /\ heap[last.ret].transform.rotation = SerialRotation

-----------------------------------------------------------------------------
(* Load a file that was cut short or had a keyword replaced *)

\* the scene of this specification: the names of its nodes in the order they
\* are made
ParseNames == <<"Root", "A", "B">>

ParseLevel == LODLevel(2, "hi")

\* the words the writer puts in front of each part of a node
Keywords ==
  {"Node", "Position", "Rotation", "Scale", "LODLevels", "BoundingBox", "Children"}

\* a word that is none of the format's
Oops == "Oops"

PAddNode ==
  /\ root = 1
  /\ file = <<>>
  /\ last.op \in {"none", "edit"}
  /\ Len(heap) < Len(ParseNames)
  /\ \E p \in NodeIds :
       heap' = addChild(Append(heap, SceneNodeCtor(ParseNames[Len(heap) + 1], quat0)),
                        p, Len(heap) + 1)
  /\ last' = [op |-> "edit"]
  /\ UNCHANGED <<root, tr, lod, planes, file, quat0, sets>>

PAddLevel ==
  /\ root = 1
  /\ file = <<>>
  /\ last.op \in {"none", "edit"}
  /\ heap[Newest].lod = <<>>
  /\ heap' = [heap EXCEPT ![Newest].lod =
                 addLevel(@, ParseLevel.distanceThreshold, ParseLevel.meshName, 0)]
  /\ last' = [op |-> "edit"]
  /\ UNCHANGED <<root, tr, lod, planes, file, quat0, sets>>

PSerialize ==
  /\ root = 1
  /\ last.op \in {"none", "edit"}
  /\ file' = serializeNode(heap, root)
  /\ last' = [op |-> "serialize"]
  /\ UNCHANGED <<heap, root, tr, lod, planes, quat0, sets>>

\* the file loses its end: only its first k tokens are left
PTruncate ==
  /\ last.op = "serialize"
  /\ \E k \in 0..(Len(file) - 1) : file' = SubSeq(file, 1, k)
  /\ last' = [op |-> "truncate"]
  /\ UNCHANGED <<heap, root, tr, lod, planes, quat0, sets>>

\* one keyword of the file is replaced by another word
PCorrupt ==
  /\ last.op = "serialize"
  /\ \E k \in 1..Len(file) :
       /\ file[k] \in Keywords
       /\ file' = [file EXCEPT ![k] = Oops]
  /\ last' = [op |-> "corrupt"]
  /\ UNCHANGED <<heap, root, tr, lod, planes, quat0, sets>>

\* UI::deserializeScene; damaged tells whether the file was cut or changed
\* after serialize wrote it
PDeserialize ==
  /\ last.op \in {"serialize", "truncate", "corrupt"}
  /\ \E orc \in Oracles :
       LET r == deserialize(file, heap, orc)
       IN  /\ heap' = r.h
           /\ root' = IF r.node # Null THEN r.node ELSE root
           /\ last' = [op |-> "deserialize", ret |-> r.node, src |-> root,
                       damaged |-> last.op # "serialize", how |-> last.op]
  /\ UNCHANGED <<tr, lod, planes, file, quat0, sets>>

InitParse ==
  /\ quat0 \in DefaultQuats
  /\ tr = TransformCtor(quat0)
  /\ heap = <<SceneNodeCtor(ParseNames[1], quat0)>>
  /\ root = 1
  /\ lod = <<>>
  /\ planes = <<>>
  /\ file = <<>>
  /\ last = NoCall
  /\ sets = 0

NextParse ==
  \/ PAddNode
  \/ PAddLevel
  \/ PSerialize
  \/ PTruncate
  \/ PCorrupt
  \/ PDeserialize

SpecParse == InitParse /\ [][NextParse]_vars

\* C6: deserializing a malformed or truncated token stream returns null for
\* the whole parse, no partially built node reaches the caller, and the
\* caller's root is left unchanged
C6_DamagedFileYieldsNull ==
  (last.op = "deserialize" /\ last.damaged) =>
    /\ last.ret = Null
    /\ root = last.src

\* what the code does keep of C6: a file whose first token is not "Node"
\* yields null and leaves the root alone
C6_NullWithoutLeadingNode ==
  (last.op = "deserialize" /\ (file = <<>> \/ file[1] # "Node")) =>
    /\ last.ret = Null
    /\ root = last.src

\* a file cut after its first two tokens was loaded and a node came back
C6_TruncatedReturnsNode ==
  /\ last.op = "deserialize"
  /\ last.how = "truncate"
  /\ Len(file) = 2
  /\ last.ret # Null
  /\ root = last.ret

====
